---- MODULE Spec2Model ----
(***************************************************************************)
(* Scroll-driven section activation and background crossfade of the        *)
(* landing page (src/sos-foundation-site/src/app/page.tsx, second module   *)
(* of the file, lines 858 onward).                                         *)
(*                                                                         *)
(* Intersection ratios are JavaScript numbers in [0,1]; here they are      *)
(* integers counted in units of 1e-6, the margin commitBest adds when it   *)
(* compares two scores, so 1.0 is Unit and the margin is EPS.              *)
(***************************************************************************)
EXTENDS Integers, Sequences, FiniteSets, TLC

\* ------------------------------------------------------------ bounds
\* Longest batch of IntersectionObserver entries delivered in one callback.
MaxBatch == 2
\* Longest URL list handed to usePreloadedImages in the hook-level specification.
MaxUrls == 3
\* The count of observer callbacks since the last commitBest stops here.
MaxUnseen == 2
\* Re-runs of the preload effect in one lifetime of the component.
MaxReruns == 1
\* The largest scroll offset, document height and viewport height.
MaxScrollTop == 3
MaxScrollHeight == 4
MaxClientHeight == 2

\* --------------------------------------------------- program constants
Unit == 1000000
EPS == 1

sectionIds == <<"hero", "meaning", "pattern", "mechanism", "work", "involved">>

Ids == {sectionIds[i] : i \in 1..Len(sectionIds)}

preloadUrls ==
  << "/pics/Vision_bg.png", "/pics/meaning_img.JPG", "/pics/pattern.JPG",
     "/pics/mechanism.JPG", "/pics/work.JPG", "/pics/involved.JPG" >>

\* cfgFor(k)?.image, with "" for a key that has no configuration (null).
cfgImage(k) ==
  CASE k = "meaning"   -> "/pics/meaning_img.JPG"
    [] k = "pattern"   -> "/pics/pattern.JPG"
    [] k = "mechanism" -> "/pics/mechanism.JPG"
    [] k = "hero"      -> "/pics/Vision_bg.png"
    [] k = "work"      -> "/pics/work.JPG"
    [] k = "involved"  -> "/pics/involved.JPG"
    [] OTHER           -> ""

\* Mutant: the last two sections have no key.
KeyOfFour(a) ==
  IF a \in {"hero", "meaning", "pattern", "mechanism"} THEN a ELSE "none"

\* The crossfade key of an active id.
KeyOf(a) ==
  IF a \in {"hero", "meaning", "pattern", "mechanism", "work", "involved"}
  THEN a ELSE "none"

VARIABLES
  phase,        \* "rendered" (first render done, effects not yet run), "mounted", "unmounted"
  \* useActiveSection
  active,       \* the state of useState(sectionIds[0] || "")
  elements,     \* the declared ids that have an element in the document
  observing,    \* an IntersectionObserver exists and is connected
  ratios,       \* the Map ratios: a function from the ids written so far
  raf,          \* the effect's raf variable: 0, or the handle of the requested frame
  frames,       \* commitBest callbacks waiting in the browser's animation-frame list
  unseen,       \* history: observer callbacks run since the last commitBest (up to MaxUnseen)
  \* usePreloadedImages
  urls,         \* the hook's argument
  loaded,       \* loadedRef.current: a Set, kept in insertion order
  pc,           \* "init", "scheduled", "await", "done", "stopped"
  idx,          \* position in urls of the decode in flight (0: none yet)
  cancelled,    \* the effect's cancelled flag
  hasIdle,      \* window.requestIdleCallback is a function
  hasDecode,    \* "decode" in img
  inflight,     \* decodes started and not yet settled
  lastOutcome,  \* history: how the last settled decode ended ("none", "ok", "fail")
  \* DivisionBackgroundCrossfade
  displayKey,   \* the state of useState(key)
  pendingEffect,\* the [key, isLoaded] effect of the last commit has not run yet
  orphans,      \* decodes in flight that belong to runs of earlier, cleaned-up effects
  reruns,       \* history: how often the preload effect has run again
  \* the document and the window
  scrollTop,    \* document.documentElement.scrollTop
  scrollHeight, \* document.documentElement.scrollHeight
  clientHeight, \* document.documentElement.clientHeight
  fragment,     \* the fragment of the URL, "" when it has none
  \* useScrollProgress
  progress,     \* the state p, a fraction <<numerator, denominator>> in lowest terms
  listening,    \* onScroll is a scroll listener of the window
  seenTop,      \* history: the scrollTop the last run of onScroll has read
  seenMax,      \* history: the max the last run of onScroll has computed
  \* mixHex
  mixA,         \* the argument a, a sequence of characters
  mixB,         \* the argument b
  mixT,         \* the argument t, a fraction
  mixed,        \* the string of the last call, "" before the first
  settled,      \* history: decodes of the current effect's run that have settled
  \* useIsTouchLikeDevice and one RoleCard
  mqlMatches,   \* the media query (hover: none), (pointer: coarse) matches
  hasMatchMedia,\* window.matchMedia is a function
  touchLike,    \* the state of useState(false) in useIsTouchLikeDevice
  open,         \* the state of useState(false) in RoleCard
  rolePending,  \* the [toggleEnabled] effect of the last commit has not run yet
  lastEvent     \* history: the last click or key press on the card, "none" before

detVars == <<active, elements, observing, ratios, raf, frames, unseen>>
preVars == <<urls, loaded, pc, idx, cancelled, hasIdle, hasDecode, inflight, lastOutcome>>
cfVars == <<displayKey, pendingEffect>>
rerunVars == <<orphans, reruns>>
docVars == <<scrollTop, scrollHeight, clientHeight>>
navVars == <<fragment>>
scrollVars == <<progress, listening, seenTop, seenMax>>
mixVars == <<mixA, mixB, mixT, mixed>>
roleVars == <<mqlMatches, hasMatchMedia, touchLike, open, rolePending, lastEvent>>
vars ==
  <<phase, detVars, preVars, cfVars, rerunVars, docVars, navVars, scrollVars,
    mixVars, settled, roleVars>>

\* ------------------------------------------------------------ helpers
Range(s) == {s[i] : i \in 1..Len(s)}

\* The values of the parameter url?: string | null that are not URLs.
NullUrl == "<null>"

UndefinedUrl == "<undefined>"

\* !url
Falsy(url) == url \in {"", NullUrl, UndefinedUrl}

\* Mutant: the test for a missing URL is left out.
IsLoadedStrict(url, ld) == url \in Range(ld)

\* isLoaded of usePreloadedImages, on a given loaded set.
isLoadedIn(url, ld) == IF Falsy(url) THEN TRUE ELSE url \in Range(ld)

isLoaded(url) == isLoadedIn(url, loaded)

\* ratios.get(id) ?? 0
RatioOf(r, id) == IF id \in DOMAIN r THEN r[id] ELSE 0

\* --------------------------------------------------- useActiveSection
\* Mutant: the margin is 1e-3 instead of 1e-6.
ScoreBeatsWide(score, bestScore) == score > bestScore + Unit \div 1000

\* score > bestScore + 1e-6
ScoreBeats(score, bestScore) == score > bestScore + EPS

\* The for loop of commitBest from position i on.
RECURSIVE BestFrom(_, _, _, _)
BestFrom(i, bestId, bestScore, r) ==
  IF i > Len(sectionIds) THEN bestId
  ELSE LET id == sectionIds[i]
           score == RatioOf(r, id)
       IN IF ScoreBeats(score, bestScore)
          THEN BestFrom(i + 1, id, score, r)
          ELSE BestFrom(i + 1, bestId, bestScore, r)

\* let bestId = prev || sectionIds[0] || ""
StartBest(prev) ==
  IF prev # "" THEN prev
  ELSE IF Len(sectionIds) > 0 THEN sectionIds[1] ELSE ""

\* Mutant: the best score starts at 0.
StartScoreZero(prev, r) == 0

\* Mutant: the scan starts from the previous section's own score.
StartScoreOfPrev(prev, r) == RatioOf(r, prev)

\* let bestScore = -1
StartScore(prev, r) == -Unit

\* The updater handed to setActive by commitBest.
BestOf(prev, r) ==
  LET bestId == BestFrom(1, StartBest(prev), StartScore(prev, r), r)
  IN IF bestId = "" THEN prev
     ELSE IF prev = bestId THEN prev ELSE bestId

\* Mutant: the early return on an empty element list is missing.
SetsUpObserverAlways(els) == TRUE

\* if (!elements.length) return;
SetsUpObserver(els) == els # {}

\* Mutant: a frame is requested on every callback.
RequestsFrameAlways(r) == TRUE

\* if (!raf) raf = window.requestAnimationFrame(commitBest)
RequestsFrame(r) == r = 0

\* raf = 0, first statement of commitBest
RafAfterCommit(r) == 0

\* Mutant: the ratio is stored whether the entry intersects or not.
EntryRatio(e) == e.intersectionRatio

\* ratios.set(id, entry.isIntersecting ? entry.intersectionRatio : 0)
EntryValue(e) == IF e.isIntersecting THEN e.intersectionRatio ELSE 0

\* Mutant: an id that has a ratio keeps it.
RECURSIVE ApplyEntriesOnce(_, _)
ApplyEntriesOnce(r, batch) ==
  IF batch = <<>> THEN r
  ELSE LET e == Head(batch)
           r1 == [x \in DOMAIN r \cup {e.id} |->
                    IF x \in DOMAIN r THEN r[x] ELSE e.intersectionRatio]
       IN ApplyEntriesOnce(r1, Tail(batch))

\* The for loop of the observer callback over the entries of one batch.
RECURSIVE ApplyEntries(_, _)
ApplyEntries(r, batch) ==
  IF batch = <<>> THEN r
  ELSE LET e == Head(batch)
           r1 == [x \in DOMAIN r \cup {e.id} |->
                    IF x = e.id THEN EntryValue(e) ELSE r[x]]
       IN ApplyEntries(r1, Tail(batch))

\* Mutant: entries come for every declared id, in the document or not.
EntriesOfDeclared(els, V) ==
  [id : {sectionIds[i] : i \in 1..Len(sectionIds)}, isIntersecting : BOOLEAN,
   intersectionRatio : V]

\* The entries an observer of the elements els may report, with ratios from V.
Entries(els, V) ==
  [id : els, isIntersecting : BOOLEAN, intersectionRatio : V]

Batches(els, V, n) ==
  UNION {[1..k -> Entries(els, V)] : k \in 1..n}

\* ------------------------------------------------- usePreloadedImages
\* Mutant: the set is replaced by one that holds the new URL only.
SetReplace(ld, url) == <<url>>

\* loadedRef.current.add(url): a Set keeps one copy, in insertion order.
SetAdd(ld, url) == IF url \in Range(ld) THEN ld ELSE Append(ld, url)

\* Mutant: a URL that is loaded already is decoded again.
SkipsEmptyOnly(url, ld) == url = ""

\* if (!url || loadedRef.current.has(url)) continue;
Skips(url, ld) == url = "" \/ url \in Range(ld)

\* Mutant: the list is walked from its end.
RECURSIVE NextUrlFromEnd(_, _, _)
NextUrlFromEnd(us, i, ld) ==
  LET left == {j \in i..Len(us) : ~Skips(us[j], ld)}
  IN IF left = {} THEN Len(us) + 1
     ELSE CHOOSE j \in left : \A k \in left : k <= j

\* The position of the first URL from i on that the loop does not skip,
\* Len(us) + 1 when there is none.
RECURSIVE NextUrl(_, _, _)
NextUrl(us, i, ld) ==
  IF i > Len(us) THEN Len(us) + 1
  ELSE IF Skips(us[i], ld) THEN NextUrl(us, i + 1, ld)
  ELSE i

\* Mutant: run does not look at the flag at the head of an iteration.
RunFromUnchecked(us, i, ld, canc) ==
  LET j == NextUrl(us, i, ld)
  IN IF j > Len(us) THEN [pc |-> "done", idx |-> j, started |-> 0]
     ELSE [pc |-> "await", idx |-> j, started |-> 1]

\* The synchronous part of run from iteration i to its next await or its end:
\* where the loop stands then, and the decode it has started, if any.
RunFrom(us, i, ld, canc) ==
  IF i > Len(us) THEN [pc |-> "done", idx |-> i, started |-> 0]
  ELSE IF canc THEN [pc |-> "stopped", idx |-> i, started |-> 0]
  ELSE LET j == NextUrl(us, i, ld)
       IN IF j > Len(us) THEN [pc |-> "done", idx |-> j, started |-> 0]
          ELSE [pc |-> "await", idx |-> j, started |-> 1]

\* What the awaited promise does: img.decode() rejects on a failure, the
\* onload/onerror promise resolves on both.
Rejects(hd, outcome) == hd /\ outcome = "fail"

\* Mutant: no try/catch around the await.
AfterAwaitUncaught(hd, outcome) ==
  IF Rejects(hd, outcome) THEN "abort" ELSE "continue"

\* try { ... } catch { }: a rejection is swallowed and the loop goes on.
AfterAwait(hd, outcome) ==
  IF Rejects(hd, outcome) THEN "continue" ELSE "continue"

\* Mutant: the flag is not looked at after the await.
RecordsAlways(canc) == TRUE

\* if (cancelled) return; before loadedRef.current.add(url)
RecordsResult(canc) == ~canc

\* typeof handle === "number" ? clearTimeout(handle) : cancelIdleCallback(handle):
\* both requestIdleCallback and setTimeout return a number, so clearTimeout is
\* what runs, and it clears a timer, not an idle callback.
CleanupUnschedules(idle) == ~idle

\* ----------------------------------------- DivisionBackgroundCrossfade
\* Mutant: the effect does not wait for the image.
EffectDisplayUngated(dk, key, ld) == key

\* Mutant: the test of the gate is inverted.
EffectDisplayInverted(dk, key, ld) ==
  IF key = "none" THEN "none"
  ELSE IF ~(cfgImage(key) = "" \/ isLoadedIn(cfgImage(key), ld)) THEN key
  ELSE dk

\* The body of the [key, isLoaded] effect: the displayKey it leaves.
EffectDisplay(dk, key, ld) ==
  IF key = "none" THEN "none"
  ELSE IF cfgImage(key) = "" \/ isLoadedIn(cfgImage(key), ld) THEN key
  ELSE dk

\* Whether a commit schedules the effect: on mount, and when a dependency
\* changed. isLoaded is a useCallback with no dependencies, so only key counts.
EffectScheduled(oldKey, newKey, ldChanged) == oldKey # newKey

\* React runs the passive effects of the last commit before it renders again.
Flushed(dk, pend, key, ld) == IF pend THEN EffectDisplay(dk, key, ld) ELSE dk

\* -------------------------------------------------- useScrollProgress
RECURSIVE GCD(_, _)
GCD(a, b) == IF b = 0 THEN a ELSE GCD(b, a % b)

Abs(n) == IF n < 0 THEN -n ELSE n

\* The number n / d, d > 0, as a fraction in lowest terms.
Frac(n, d) == LET g == GCD(Abs(n), d) IN <<n \div g, d \div g>>

Zero == Frac(0, 1)

One == Frac(1, 1)

\* x <= y on fractions
Leq(x, y) == x[1] * y[2] <= y[1] * x[2]

\* Math.max(0, x)
Max0(x) == IF Leq(x, Zero) THEN Zero ELSE x

\* Math.min(1, x)
Min1(x) == IF Leq(One, x) THEN One ELSE x

\* Mutant: the quotient is not clamped.
ProgressUnclamped(st, sh, ch) ==
  LET max == sh - ch
  IN IF max <= 0 THEN Zero ELSE Frac(st, max)

\* Mutant: the distance to the end of the document, not to its start.
ProgressFromEnd(st, sh, ch) ==
  LET max == sh - ch
  IN IF max <= 0 THEN Zero ELSE Min1(Max0(Frac(max - st, max)))

\* max <= 0 ? 0 : Math.min(1, Math.max(0, scrollTop / max))
ProgressOf(st, sh, ch) ==
  LET max == sh - ch
  IN IF max <= 0 THEN Zero ELSE Min1(Max0(Frac(st, max)))

\* -------------------------------------------------------------- mixHex
\* A string is a sequence of its characters where the code takes it apart.
HexUpper ==
  <<"0", "1", "2", "3", "4", "5", "6", "7", "8", "9", "A", "B", "C", "D", "E", "F">>

HexLower ==
  <<"0", "1", "2", "3", "4", "5", "6", "7", "8", "9", "a", "b", "c", "d", "e", "f">>

IsHexDigit(c) == \E i \in 1..Len(HexUpper) : HexUpper[i] = c \/ HexLower[i] = c

DigitValue(c) ==
  (CHOOSE i \in 1..Len(HexUpper) : HexUpper[i] = c \/ HexLower[i] = c) - 1

\* hex.replace("#", ""): the first number sign is taken out.
RECURSIVE RemoveFirst(_, _)
RemoveFirst(str, c) ==
  IF str = <<>> THEN <<>>
  ELSE IF Head(str) = c THEN Tail(str)
  ELSE <<Head(str)>> \o RemoveFirst(Tail(str), c)

\* What parseInt gives for a string that does not start with a digit.
NaN == -1

\* parseInt(h, 16): the value of the longest prefix of hexadecimal digits.
RECURSIVE ParsePrefix(_, _, _)
ParsePrefix(h, i, acc) ==
  IF i > Len(h) \/ ~IsHexDigit(h[i]) THEN acc
  ELSE ParsePrefix(h, i + 1, 16 * acc + DigitValue(h[i]))

ParseInt16(h) ==
  IF h = <<>> \/ ~IsHexDigit(h[1]) THEN NaN ELSE ParsePrefix(h, 1, 0)

\* ToInt32 of the operand of >> and &: NaN becomes 0. The values parsed from
\* six digits are below 2^24 and keep their value.
ToInt32(n) == IF n = NaN THEN 0 ELSE n

\* (n >> k) & 255
ShiftMask(n, k) == (ToInt32(n) \div 2^k) % 256

hexToRgb(hex) ==
  LET h == RemoveFirst(hex, "#")
      bigint == ParseInt16(h)
  IN [r |-> ShiftMask(bigint, 16), g |-> ShiftMask(bigint, 8), b |-> ShiftMask(bigint, 0)]

\* Mutant: the end points are exchanged.
LerpSwapped(a, b, t) == Frac(b * t[2] + (a - b) * t[1], t[2])

\* a + (b - a) * t, exact for the fractions 0, 1/2 and 1 and channel values.
lerp(a, b, t) == Frac(a * t[2] + (b - a) * t[1], t[2])

\* Math.round(x): the integer nearest to x, a half rounded up.
Round(x) == (2 * x[1] + x[2]) \div (2 * x[2])

\* `rgb(${r}, ${g}, ${bb})`
RgbString(r, g, bb) ==
  "rgb(" \o ToString(r) \o ", " \o ToString(g) \o ", " \o ToString(bb) \o ")"

mixHex(a, b, t) ==
  LET A == hexToRgb(a)
      B == hexToRgb(b)
      r == Round(lerp(A.r, B.r, t))
      g == Round(lerp(A.g, B.g, t))
      bb == Round(lerp(A.b, B.b, t))
  IN RgbString(r, g, bb)

\* ---------------------------------------------------------- scrollToId
\* Mutant: the id without the number sign.
FragmentBare(id) == id

\* `#${id}`
FragmentFor(id) == "#" \o id

\* -------------------------------------------- the effect's dependency
\* urls.join("|")
RECURSIVE JoinFrom(_, _)
JoinFrom(us, i) ==
  IF i > Len(us) THEN ""
  ELSE IF i = Len(us) THEN us[i]
  ELSE us[i] \o "|" \o JoinFrom(us, i + 1)

JoinKey(us) == JoinFrom(us, 1)

\* ------------------------------------------------------------ RoleCard
\* const ROLE_CARD_TOGGLE_MODE: "auto" | "on" | "off" = "auto"
ROLE_CARD_TOGGLE_MODE == "auto"

\* Mutant: the toggle is enabled everywhere, as in the mode "on".
ToggleEnabledEverywhere(mode, tl) == TRUE

useRoleCardToggleEnabled(mode, tl) ==
  IF mode = "on" THEN TRUE
  ELSE IF mode = "off" THEN FALSE
  ELSE tl

\* toggleEnabled of a render with the state tl
ToggleEnabled(tl) == useRoleCardToggleEnabled(ROLE_CARD_TOGGLE_MODE, tl)

\* if (!toggleEnabled) setOpen(false)
RoleEffectOpen(op, enabled) == IF ~enabled THEN FALSE ELSE op

\* The [toggleEnabled] effect of the last commit runs before the next render.
RoleFlushed(op, pend, enabled) == IF pend THEN RoleEffectOpen(op, enabled) ELSE op

\* The selector of target.closest: a,button,input,textarea,select,label
InteractiveTags == {"a", "button", "input", "textarea", "select", "label"}

\* Mutant: the target itself is tested, not its ancestors.
TargetInteractive(path) == path # <<>> /\ path[1] \in InteractiveTags

\* target?.closest(...) for a target given as the tag names from the target
\* up to the root, <<>> for no target.
ClosestInteractive(path) == \E i \in 1..Len(path) : path[i] \in InteractiveTags

\* Mutant: Enter alone toggles.
TogglesOnEnter(key) == key = "Enter"

\* if (e.key !== "Enter" && e.key !== " ") return;
TogglesOnKey(key) == ~(key # "Enter" /\ key # " ")

\* setOpen((v) => !v)
Toggled(op) == ~op

\* ------------------------------------------------------- the actions
\* The passive effects of the first commit, the child component's first:
\* usePreloadedImages schedules run, the crossfade effect runs for the first
\* key, useActiveSection looks its elements up and creates the observer.
Mount ==
  /\ phase = "rendered"
  /\ phase' = "mounted"
  /\ pc' = "scheduled"
  /\ displayKey' = EffectDisplay(displayKey, KeyOf(active), loaded)
  /\ pendingEffect' = FALSE
  /\ observing' = SetsUpObserver(elements)
  /\ progress' = ProgressOf(scrollTop, scrollHeight, clientHeight)
  /\ seenTop' = scrollTop
  /\ seenMax' = scrollHeight - clientHeight
  /\ listening' = TRUE
  /\ touchLike' = (IF hasMatchMedia THEN mqlMatches ELSE touchLike)
  /\ open' = RoleFlushed(open, rolePending, ToggleEnabled(touchLike))
  /\ rolePending' = (ToggleEnabled(touchLike') # ToggleEnabled(touchLike))
  /\ UNCHANGED <<active, elements, ratios, raf, frames, unseen>>
  /\ UNCHANGED <<urls, loaded, idx, cancelled, hasIdle, hasDecode, inflight, lastOutcome>>
  /\ UNCHANGED <<rerunVars, docVars, navVars, mixVars>>
  /\ UNCHANGED <<settled, mqlMatches, hasMatchMedia, lastEvent>>

\* The IntersectionObserver callback on the batch of entries.
ObserveBatch(batch) ==
  /\ phase = "mounted"
  /\ observing
  /\ ratios' = ApplyEntries(ratios, batch)
  /\ IF RequestsFrame(raf)
     THEN raf' = 1 /\ frames' = frames + 1
     ELSE UNCHANGED <<raf, frames>>
  /\ unseen' = IF unseen < MaxUnseen THEN unseen + 1 ELSE unseen
  /\ UNCHANGED <<phase, active, elements, observing>>
  /\ UNCHANGED <<preVars, cfVars>>
  /\ UNCHANGED <<rerunVars, docVars, navVars, scrollVars, mixVars>>
  /\ UNCHANGED <<settled, roleVars>>

\* The callback on one batch of at most n entries, their ratios taken from V.
ObserverCallback(V, n) ==
  \E batch \in Batches(elements, V, n) : ObserveBatch(batch)

\* An animation frame runs commitBest. setActive on a mounted component
\* renders it again when the state changed; an unmounted one ignores it.
AnimationFrame ==
  /\ frames > 0
  /\ frames' = frames - 1
  /\ raf' = RafAfterCommit(raf)
  /\ unseen' = 0
  /\ active' = IF phase = "mounted" THEN BestOf(active, ratios) ELSE active
  /\ IF active' # active
     THEN /\ displayKey' = Flushed(displayKey, pendingEffect, KeyOf(active), loaded)
          /\ pendingEffect' = EffectScheduled(KeyOf(active), KeyOf(active'), FALSE)
     ELSE UNCHANGED cfVars
  /\ UNCHANGED <<phase, elements, observing, ratios>>
  /\ UNCHANGED preVars
  /\ UNCHANGED <<rerunVars, docVars, navVars, scrollVars, mixVars>>
  /\ UNCHANGED <<settled, roleVars>>

\* The [key, isLoaded] effect of DivisionBackgroundCrossfade runs.
CrossfadeEffect ==
  /\ phase = "mounted"
  /\ pendingEffect
  /\ displayKey' = EffectDisplay(displayKey, KeyOf(active), loaded)
  /\ pendingEffect' = FALSE
  /\ UNCHANGED <<phase, detVars, preVars>>
  /\ UNCHANGED <<rerunVars, docVars, navVars, scrollVars, mixVars>>
  /\ UNCHANGED <<settled, roleVars>>

\* The idle callback or the timer fires and run starts.
RunScheduled ==
  /\ pc = "scheduled"
  /\ LET r == RunFrom(urls, 1, loaded, cancelled)
     IN /\ pc' = r.pc
        /\ idx' = r.idx
        /\ inflight' = inflight + r.started
  /\ UNCHANGED <<phase, detVars, cfVars>>
  /\ UNCHANGED <<urls, loaded, cancelled, hasIdle, hasDecode, lastOutcome>>
  /\ UNCHANGED <<rerunVars, docVars, navVars, scrollVars, mixVars>>
  /\ UNCHANGED <<settled, roleVars>>

\* The awaited decode of urls[idx] settles, and run goes on to its next
\* await or to its end. forceRerender renders the crossfade component again.
DecodeSettle(outcome) ==
  /\ pc = "await"
  /\ lastOutcome' = outcome
  /\ IF AfterAwait(hasDecode, outcome) # "continue"
     THEN /\ pc' = "failed"
          /\ inflight' = inflight - 1
          /\ UNCHANGED <<idx, loaded, cfVars>>
     ELSE IF ~RecordsResult(cancelled)
     THEN /\ pc' = "stopped"
          /\ inflight' = inflight - 1
          /\ UNCHANGED <<idx, loaded, cfVars>>
     ELSE LET ld == SetAdd(loaded, urls[idx])
              r == RunFrom(urls, idx + 1, ld, cancelled)
          IN /\ loaded' = ld
             /\ pc' = r.pc
             /\ idx' = r.idx
             /\ inflight' = inflight - 1 + r.started
             /\ displayKey' = Flushed(displayKey, pendingEffect, KeyOf(active), ld)
             /\ pendingEffect' =
                  EffectScheduled(KeyOf(active), KeyOf(active), ld # loaded)
  /\ UNCHANGED <<phase, detVars>>
  /\ UNCHANGED <<urls, cancelled, hasIdle, hasDecode>>
  /\ UNCHANGED <<rerunVars, docVars, navVars, scrollVars, mixVars>>
  /\ settled' = settled + 1
  /\ UNCHANGED roleVars

Decoded == DecodeSettle("ok")

DecodeFailed == DecodeSettle("fail")

\* Mutant: the cleanups leave the scroll listener and the frame in place.
UnmountLeaks ==
  /\ phase = "mounted"
  /\ phase' = "unmounted"
  /\ cancelled' = TRUE
  /\ pc' = IF pc = "scheduled" /\ CleanupUnschedules(hasIdle) THEN "stopped" ELSE pc
  /\ observing' = FALSE
  /\ displayKey' = Flushed(displayKey, pendingEffect, KeyOf(active), loaded)
  /\ pendingEffect' = FALSE
  /\ UNCHANGED <<active, elements, ratios, raf, frames, unseen>>
  /\ UNCHANGED <<urls, loaded, idx, hasIdle, hasDecode, inflight, lastOutcome>>
  /\ UNCHANGED <<progress, listening, seenTop, seenMax>>
  /\ UNCHANGED <<rerunVars, docVars, navVars, mixVars>>
  /\ open' = RoleFlushed(open, rolePending, ToggleEnabled(touchLike))
  /\ rolePending' = FALSE
  /\ UNCHANGED <<settled, mqlMatches, hasMatchMedia, touchLike, lastEvent>>

\* The component is torn down: the effects' cleanups run.
Unmount ==
  /\ phase = "mounted"
  /\ phase' = "unmounted"
  /\ cancelled' = TRUE
  /\ pc' = IF pc = "scheduled" /\ CleanupUnschedules(hasIdle) THEN "stopped" ELSE pc
  /\ IF observing
     THEN /\ frames' = IF raf # 0 /\ frames > 0 THEN frames - 1 ELSE frames
          /\ observing' = FALSE
     ELSE UNCHANGED <<frames, observing>>
  /\ displayKey' = Flushed(displayKey, pendingEffect, KeyOf(active), loaded)
  /\ pendingEffect' = FALSE
  /\ UNCHANGED <<active, elements, ratios, raf, unseen>>
  /\ UNCHANGED <<urls, loaded, idx, hasIdle, hasDecode, inflight, lastOutcome>>
  /\ listening' = FALSE
  /\ UNCHANGED <<progress, seenTop, seenMax>>
  /\ UNCHANGED <<rerunVars, docVars, navVars, mixVars>>
  /\ open' = RoleFlushed(open, rolePending, ToggleEnabled(touchLike))
  /\ rolePending' = FALSE
  /\ UNCHANGED <<settled, mqlMatches, hasMatchMedia, touchLike, lastEvent>>

\* Mutant: the handler also forgets the stored ratios.
OnScrollForgets ==
  /\ listening
  /\ progress' = ProgressOf(scrollTop, scrollHeight, clientHeight)
  /\ seenTop' = scrollTop
  /\ seenMax' = scrollHeight - clientHeight
  /\ ratios' = [x \in {} |-> 0]
  /\ UNCHANGED <<active, elements, observing, raf, frames, unseen>>
  /\ UNCHANGED <<phase, preVars, cfVars>>
  /\ UNCHANGED <<listening, rerunVars, docVars, navVars, mixVars>>
  /\ UNCHANGED <<settled, roleVars>>

\* A scroll event: onScroll reads the document and sets p. The render that
\* setP asks for changes nothing else; an effect still pending at that render
\* is a CrossfadeEffect step, which reads nothing that onScroll writes.
OnScroll ==
  /\ listening
  /\ progress' = ProgressOf(scrollTop, scrollHeight, clientHeight)
  /\ seenTop' = scrollTop
  /\ seenMax' = scrollHeight - clientHeight
  /\ UNCHANGED <<phase, detVars, preVars, cfVars>>
  /\ UNCHANGED <<listening, rerunVars, docVars, navVars, mixVars>>
  /\ UNCHANGED <<settled, roleVars>>

\* The user scrolls, a smooth scroll moves on, or the layout changes: the
\* document takes an offset from T, a height from H and a viewport height
\* from C.
DocChange(T, H, C) ==
  /\ \E st \in T, sh \in H, ch \in C :
       /\ <<st, sh, ch>> # <<scrollTop, scrollHeight, clientHeight>>
       /\ scrollTop' = st
       /\ scrollHeight' = sh
       /\ clientHeight' = ch
  /\ UNCHANGED <<phase, detVars, preVars, cfVars>>
  /\ UNCHANGED <<rerunVars, navVars, scrollVars, mixVars>>
  /\ UNCHANGED <<settled, roleVars>>

\* Mutant: the navigation makes its target the active section at once.
ScrollToIdActivates(id) ==
  /\ phase # "unmounted"
  /\ id \in elements
  /\ fragment' = FragmentFor(id)
  /\ active' = id
  /\ UNCHANGED <<phase, elements, observing, ratios, raf, frames, unseen>>
  /\ UNCHANGED <<preVars, cfVars>>
  /\ UNCHANGED <<rerunVars, docVars, scrollVars, mixVars>>
  /\ UNCHANGED <<settled, roleVars>>

\* A click on a navigation button: scrollToId(id). window.scrollTo with
\* behavior "smooth" moves the document later, in DocChange steps.
ScrollToId(id) ==
  /\ phase # "unmounted"
  /\ IF id \in elements
     THEN fragment' = FragmentFor(id)
     ELSE UNCHANGED fragment
  /\ UNCHANGED <<phase, detVars, preVars, cfVars>>
  /\ UNCHANGED <<rerunVars, docVars, scrollVars, mixVars>>
  /\ UNCHANGED <<settled, roleVars>>

\* The component is rendered with another list: the effect's cleanup
\* cancels the run of the old list, whose decode in flight settles later,
\* and the effect schedules a run of the new list. The callback of the old
\* effect, where the cleanup could not unschedule it, returns at once.
Rerun(newUrls) ==
  /\ phase = "mounted"
  /\ reruns < MaxReruns
  /\ JoinKey(newUrls) # JoinKey(urls)
  /\ urls' = newUrls
  /\ reruns' = reruns + 1
  /\ orphans' = orphans + inflight
  /\ inflight' = 0
  /\ pc' = "scheduled"
  /\ idx' = 0
  /\ displayKey' = Flushed(displayKey, pendingEffect, KeyOf(active), loaded)
  /\ pendingEffect' = EffectScheduled(KeyOf(active), KeyOf(active), FALSE)
  /\ UNCHANGED <<phase, detVars>>
  /\ UNCHANGED <<loaded, cancelled, hasIdle, hasDecode, lastOutcome>>
  /\ UNCHANGED <<docVars, navVars, scrollVars, mixVars>>
  /\ settled' = 0
  /\ UNCHANGED roleVars

\* A decode of a cancelled run settles: run returns without recording it.
StaleSettle ==
  /\ orphans > 0
  /\ ~RecordsResult(TRUE)
  /\ orphans' = orphans - 1
  /\ UNCHANGED <<phase, detVars, preVars, cfVars>>
  /\ UNCHANGED <<reruns, docVars, navVars, scrollVars, mixVars>>
  /\ UNCHANGED <<settled, roleVars>>

\* The media query changes to m. While the component is mounted the
\* browser reports the change to update, which sets touchLike; the render
\* that follows runs a pending [toggleEnabled] effect first.
MediaChange(m) ==
  /\ m # mqlMatches
  /\ mqlMatches' = m
  /\ IF phase = "mounted" /\ hasMatchMedia
     THEN /\ touchLike' = m
          /\ open' = RoleFlushed(open, rolePending, ToggleEnabled(touchLike))
          /\ rolePending' = (ToggleEnabled(m) # ToggleEnabled(touchLike))
     ELSE UNCHANGED <<touchLike, open, rolePending>>
  /\ UNCHANGED <<phase, detVars, preVars, cfVars>>
  /\ UNCHANGED <<rerunVars, docVars, navVars, scrollVars, mixVars>>
  /\ UNCHANGED <<settled, hasMatchMedia, lastEvent>>

\* The [toggleEnabled] effect of RoleCard runs.
RoleEffect ==
  /\ phase = "mounted"
  /\ rolePending
  /\ open' = RoleEffectOpen(open, ToggleEnabled(touchLike))
  /\ rolePending' = FALSE
  /\ UNCHANGED <<phase, detVars, preVars, cfVars>>
  /\ UNCHANGED <<rerunVars, docVars, navVars, scrollVars, mixVars>>
  /\ UNCHANGED <<settled, mqlMatches, hasMatchMedia, touchLike, lastEvent>>

\* A click on the card or inside it: onCardClick. A pending effect and the
\* handler never both write open: the effect writes it when toggleEnabled is
\* false, the handler when it is true.
CardClick(path) ==
  /\ phase # "unmounted"
  /\ lastEvent' = (IF ClosestInteractive(path) THEN "click inside" ELSE "click")
  /\ open' = IF ~ToggleEnabled(touchLike) THEN open
             ELSE IF ClosestInteractive(path) THEN open
             ELSE Toggled(open)
  /\ UNCHANGED <<phase, detVars, preVars, cfVars>>
  /\ UNCHANGED <<rerunVars, docVars, navVars, scrollVars, mixVars>>
  /\ UNCHANGED <<settled, mqlMatches, hasMatchMedia, touchLike, rolePending>>

\* A key goes down on the card or inside it: onCardKeyDown.
CardKeyDown(key) ==
  /\ phase # "unmounted"
  /\ lastEvent' = key
  /\ open' = IF ~ToggleEnabled(touchLike) THEN open
             ELSE IF ~TogglesOnKey(key) THEN open
             ELSE Toggled(open)
  /\ UNCHANGED <<phase, detVars, preVars, cfVars>>
  /\ UNCHANGED <<rerunVars, docVars, navVars, scrollVars, mixVars>>
  /\ UNCHANGED <<settled, mqlMatches, hasMatchMedia, touchLike, rolePending>>

\* A call of mixHex.
MixHex(a, b, t) ==
  /\ mixA' = a
  /\ mixB' = b
  /\ mixT' = t
  /\ mixed' = mixHex(a, b, t)
  /\ UNCHANGED <<phase, detVars, preVars, cfVars>>
  /\ UNCHANGED <<rerunVars, docVars, navVars, scrollVars>>
  /\ UNCHANGED <<settled, roleVars>>

\* ------------------------------------------------ the specifications
\* const DARK_BG = "#081824"
DARK_BG == <<"#", "0", "8", "1", "8", "2", "4">>

\* No call of mixHex yet.
InitMix ==
  /\ mixA = DARK_BG
  /\ mixB = DARK_BG
  /\ mixT = Zero
  /\ mixed = ""

\* A device with a mouse, in a browser that has window.matchMedia.
InitMedia ==
  /\ mqlMatches = FALSE
  /\ hasMatchMedia = TRUE

\* The document at rest at its top, its URL without a fragment.
InitRest ==
  /\ scrollTop = 0
  /\ scrollHeight = MaxScrollHeight
  /\ clientHeight = MaxClientHeight
  /\ fragment = ""
  /\ InitMix
  /\ InitMedia

\* What does not depend on the environment, after the first render.
InitCommon ==
  /\ phase = "rendered"
  /\ active = (IF Len(sectionIds) > 0 THEN sectionIds[1] ELSE "")
  /\ observing = FALSE
  /\ ratios = [x \in {} |-> 0]
  /\ raf = 0
  /\ frames = 0
  /\ unseen = 0
  /\ loaded = <<>>
  /\ pc = "init"
  /\ idx = 0
  /\ cancelled = FALSE
  /\ inflight = 0
  /\ lastOutcome = "none"
  /\ displayKey = KeyOf(active)
  /\ pendingEffect = TRUE
  /\ orphans = 0
  /\ reruns = 0
  /\ progress = Zero
  /\ listening = FALSE
  /\ seenTop = 0
  /\ seenMax = 0
  /\ settled = 0
  /\ touchLike = FALSE
  /\ open = FALSE
  /\ rolePending = TRUE
  /\ lastEvent = "none"

\* The page: every section is in the document, the crossfade component
\* preloads its six images.
Init ==
  /\ InitCommon
  /\ InitRest
  /\ elements = Ids
  /\ urls = preloadUrls
  /\ hasIdle = TRUE
  /\ hasDecode = TRUE

\* Ratios of the page specification: a section is out of the observation
\* area or fills it.
PageRatios == {Unit}

Observe == ObserverCallback(PageRatios, 1)

Next ==
  \/ Mount
  \/ Observe
  \/ AnimationFrame
  \/ CrossfadeEffect
  \/ RunScheduled
  \/ Decoded
  \/ DecodeFailed
  \/ Unmount

Spec == Init /\ [][Next]_vars

\* The hook useActiveSection alone, over documents that hold some of the
\* declared sections, with ratios that differ by the margin.
DetectorElements ==
  {{}, {"meaning"}, {"hero", "pattern"}, {"hero", "meaning", "pattern"}}

Half == Unit \div 2

DetectorRatios == {Half, Half + EPS}

InitDetector ==
  /\ InitCommon
  /\ InitRest
  /\ elements \in DetectorElements
  /\ urls = preloadUrls
  /\ hasIdle = TRUE
  /\ hasDecode = TRUE

ObserveDetector == ObserverCallback(DetectorRatios, MaxBatch)

NextDetector ==
  \/ Mount
  \/ ObserveDetector
  \/ AnimationFrame
  \/ Unmount

SpecDetector == InitDetector /\ [][NextDetector]_vars

\* commitBest as a function of the previous active id and the stored
\* ratios: a frame is pending over a ratio map the callbacks have written,
\* the active id being the first id or one that has had a ratio written.
BestRatios == {0, Half, Half + EPS, Half + 2 * EPS}

InitBest ==
  /\ phase = "mounted"
  /\ elements = Ids
  /\ observing = TRUE
  /\ ratios \in UNION {[D -> BestRatios] : D \in (SUBSET Ids) \ {{}}}
  /\ active \in DOMAIN ratios \cup {sectionIds[1]}
  /\ raf = 1
  /\ frames = 1
  /\ unseen = 1
  /\ urls = preloadUrls
  /\ loaded = <<>>
  /\ pc = "scheduled"
  /\ idx = 0
  /\ cancelled = FALSE
  /\ hasIdle = TRUE
  /\ hasDecode = TRUE
  /\ inflight = 0
  /\ lastOutcome = "none"
  /\ displayKey = KeyOf(sectionIds[1])
  /\ pendingEffect = FALSE
  /\ orphans = 0
  /\ reruns = 0
  /\ progress = Zero
  /\ listening = TRUE
  /\ seenTop = 0
  /\ seenMax = MaxScrollHeight - MaxClientHeight
  /\ InitRest
  /\ settled = 0
  /\ touchLike = FALSE
  /\ open = FALSE
  /\ rolePending = FALSE
  /\ lastEvent = "none"

NextBest == AnimationFrame

SpecBest == InitBest /\ [][NextBest]_vars

\* The hook usePreloadedImages alone, over short URL lists with empty and
\* repeated entries, with and without requestIdleCallback and img.decode.
UrlPool == {"", "/pics/a.png", "/pics/b.png"}

UrlLists == UNION {[1..k -> UrlPool] : k \in 0..MaxUrls}

InitPreload ==
  /\ InitCommon
  /\ InitRest
  /\ elements = {}
  /\ urls \in UrlLists
  /\ hasIdle \in BOOLEAN
  /\ hasDecode \in BOOLEAN

NextPreload ==
  \/ Mount
  \/ RunScheduled
  \/ Decoded
  \/ DecodeFailed
  \/ Unmount

SpecPreload == InitPreload /\ [][NextPreload]_vars

\* ---------------------------------------------------------- claims
\* The hook usePreloadedImages rendered with one list after another.
NewList == \E newUrls \in UrlLists : Rerun(newUrls)

NextPreloadRerun ==
  \/ NextPreload
  \/ NewList
  \/ StaleSettle

SpecPreloadRerun == InitPreload /\ [][NextPreloadRerun]_vars

\* The hook useScrollProgress alone, over documents shorter and longer than
\* the viewport, and offsets before the start and past the end.
ScrollTops == -1..MaxScrollTop

ScrollHeights == 1..MaxScrollHeight

ClientHeights == 1..MaxClientHeight

InitScroll ==
  /\ InitCommon
  /\ InitMix
  /\ InitMedia
  /\ elements = {}
  /\ urls = <<>>
  /\ hasIdle = TRUE
  /\ hasDecode = TRUE
  /\ scrollTop \in ScrollTops
  /\ scrollHeight \in ScrollHeights
  /\ clientHeight \in ClientHeights
  /\ fragment = ""

ScrollChange == DocChange(ScrollTops, ScrollHeights, ClientHeights)

NextScroll ==
  \/ Mount
  \/ OnScroll
  \/ ScrollChange
  \/ Unmount

SpecScroll == InitScroll /\ [][NextScroll]_vars

\* The page with its first two sections in the document, scrolled between
\* its top and the middle, and navigated by the buttons of two sections.
NavElements == {"hero", "meaning"}

NavTargets == {"meaning", "work"}

NavTops == 0..1

InitNav ==
  /\ InitCommon
  /\ InitRest
  /\ elements = NavElements
  /\ urls = preloadUrls
  /\ hasIdle = TRUE
  /\ hasDecode = TRUE

NavScroll == DocChange(NavTops, {MaxScrollHeight}, {MaxClientHeight})

Navigate == \E id \in NavTargets : ScrollToId(id)

NextNav ==
  \/ Next
  \/ OnScroll
  \/ NavScroll
  \/ Navigate

SpecNav == InitNav /\ [][NextNav]_vars

\* mixHex over the colours of the page and the ends of the range, at the
\* start, the middle and the end.
Palette ==
  { <<"#", "1", "F", "2", "A", "3", "3">>,
    <<"#", "F", "5", "F", "7", "F", "6">>,
    <<"#", "2", "F", "5", "D", "8", "A">>,
    <<"#", "3", "F", "8", "F", "6", "B">>,
    <<"#", "E", "0", "B", "6", "3", "E">>,
    <<"#", "5", "F", "A", "5", "8", "B">>,
    <<"#", "2", "E", "9", "C", "9", "A">>,
    <<"#", "C", "9", "A", "2", "3", "A">>,
    <<"#", "0", "0", "7", "B", "3", "3">>,
    DARK_BG,
    <<"#", "0", "0", "0", "0", "0", "0">>,
    <<"#", "f", "f", "f", "f", "f", "f">>,
    <<"#", "0", "1", "0", "2", "F", "E">> }

MixTs == {Zero, Frac(1, 2), One}

InitMixHex ==
  /\ InitCommon
  /\ InitRest
  /\ elements = Ids
  /\ urls = preloadUrls
  /\ hasIdle = TRUE
  /\ hasDecode = TRUE

Mix == \E a \in Palette, b \in Palette, t \in MixTs : MixHex(a, b, t)

NextMix == Mix

SpecMix == InitMixHex /\ [][NextMix]_vars

\* One RoleCard, on devices that are touch-like or not and change, in
\* browsers with and without window.matchMedia; clicks on the card, on a
\* child of it and on or inside a nested link, button or label.
ClickPaths ==
  { <<>>,
    <<"div", "section", "main", "body", "html">>,
    <<"img", "div", "div", "section", "main", "body", "html">>,
    <<"a", "div", "section", "main", "body", "html">>,
    <<"span", "button", "div", "section", "main", "body", "html">>,
    <<"label", "div", "section", "main", "body", "html">> }

Keys == {"Enter", " ", "Tab", "Escape"}

InitRole ==
  /\ InitCommon
  /\ InitMix
  /\ elements = {}
  /\ urls = <<>>
  /\ hasIdle = TRUE
  /\ hasDecode = TRUE
  /\ scrollTop = 0
  /\ scrollHeight = MaxScrollHeight
  /\ clientHeight = MaxClientHeight
  /\ fragment = ""
  /\ mqlMatches \in BOOLEAN
  /\ hasMatchMedia \in BOOLEAN

Media == \E m \in BOOLEAN : MediaChange(m)

Click == \E path \in ClickPaths : CardClick(path)

KeyDown == \E key \in Keys : CardKeyDown(key)

NextRole ==
  \/ Mount
  \/ Media
  \/ RoleEffect
  \/ Click
  \/ KeyDown
  \/ Unmount

SpecRole == InitRole /\ [][NextRole]_vars

\* The observer callback of useActiveSection over batches that name a
\* section more than once, intersecting and not, in documents with the
\* second section alone and with the first two.
SampleElements == {{"meaning"}, {"hero", "meaning"}}

SampleRatios == {Half}

InitSamples ==
  /\ InitCommon
  /\ InitRest
  /\ elements \in SampleElements
  /\ urls = preloadUrls
  /\ hasIdle = TRUE
  /\ hasDecode = TRUE

ObserveSamples == ObserverCallback(SampleRatios, MaxBatch)

NextSamples ==
  \/ Mount
  \/ ObserveSamples
  \/ AnimationFrame
  \/ Unmount

SpecSamples == InitSamples /\ [][NextSamples]_vars

InitialKey == KeyOf(sectionIds[1])

IndexOf(id) == CHOOSE i \in 1..Len(sectionIds) : sectionIds[i] = id

\* s exceeds every other section's stored ratio by more than the margin.
Dominates(s, r) ==
  \A o \in Ids \ {s} : RatioOf(r, s) > RatioOf(r, o) + EPS

\* The distinct non-empty URLs of us, in the order of their first occurrence.
RECURSIVE InputOrderFrom(_, _, _)
InputOrderFrom(us, i, acc) ==
  IF i > Len(us) THEN acc
  ELSE InputOrderFrom(us, i + 1,
         IF us[i] = "" \/ us[i] \in Range(acc) THEN acc ELSE Append(acc, us[i]))

InputOrder(us) == InputOrderFrom(us, 1, <<>>)

IsPrefix(a, b) == Len(a) <= Len(b) /\ a = SubSeq(b, 1, Len(a))

\* C1 as stated: once mounted, a displayed section with a configured image
\* has that image in the loaded set.
C1_DisplayedImageLoaded ==
  phase = "mounted" =>
    (cfgImage(displayKey) # "" => isLoaded(cfgImage(displayKey)))

\* C1 as amended: a displayed image that is not in the loaded set is the image
\* of the initially displayed section, shown since the first render, and
\* nothing has been preloaded yet; every other displayed id has its image in
\* the loaded set.
C1_DisplayedLoadedOrInitial ==
  ~isLoaded(cfgImage(displayKey)) =>
    (displayKey = InitialKey /\ loaded = <<>>)

\* The previous configuration is on display while the active section's image
\* is still unloaded.
C1_Witness ==
  /\ phase = "mounted"
  /\ ~pendingEffect
  /\ displayKey = "meaning"
  /\ active = "pattern"
  /\ ~isLoaded(cfgImage("pattern"))

\* C2: once the active section's image is in the loaded set and the effects
\* of the last commit have run, the displayed id is the active id.
C2_SwitchesOnceLoaded ==
  (phase = "mounted" /\ ~pendingEffect /\ isLoaded(cfgImage(KeyOf(active))))
    => displayKey = KeyOf(active)

\* C3: the effect that follows a change of the active section sets the
\* displayed id to the active id when that section has no image or its image is
\* loaded, and no step gives the displayed id any other new value.
C3_ImmediateSwitch ==
  [][ /\ (pendingEffect /\ (~pendingEffect' \/ active' # active)) =>
           ((cfgImage(KeyOf(active)) = ""
               \/ isLoadedIn(cfgImage(KeyOf(active)), loaded'))
             => displayKey' = KeyOf(active))
      /\ displayKey' \in {displayKey, KeyOf(active)} ]_vars

\* The active section changed to one whose image was loaded, and the display
\* followed it.
C3_Witness ==
  /\ phase = "mounted"
  /\ ~pendingEffect
  /\ active = "meaning"
  /\ displayKey = "meaning"

\* The ratio maps of the specification's examples (0.9 is 900000).
ExampleMeaning ==
  ("hero" :> 100000) @@ ("meaning" :> 900000) @@ ("pattern" :> 0)

ExampleMechanism == ("mechanism" :> 800000) @@ ("work" :> 50000)

ExampleNearEqual == ("meaning" :> 500000) @@ ("pattern" :> 501000)

\* C4: a recomputation over ratios in which one section exceeds every other
\* by more than the margin makes that section active, whatever was active.
C4_DominantWins ==
  /\ [][ (AnimationFrame /\ phase = "mounted") =>
           \A s \in Ids : Dominates(s, ratios) => active' = s ]_vars
  /\ [](\A p \in Ids : /\ BestOf(p, ExampleMeaning) = "meaning"
                       /\ BestOf(p, ExampleMechanism) = "mechanism")

\* A recomputation has made a dominant section other than the first active.
C4_Witness ==
  /\ phase = "mounted"
  /\ frames = 0
  /\ active = "mechanism"
  /\ Dominates("mechanism", ratios)

\* C5: a recomputation keeps the previous active section when no stored ratio
\* exceeds that section's ratio by more than the margin.
C5_RetainsPrevious ==
  [][ (AnimationFrame /\ phase = "mounted"
         /\ \A id \in Ids : RatioOf(ratios, id) <= RatioOf(ratios, active) + EPS)
        => active' = active ]_vars

\* C6 as stated: the new active id depends on the stored ratios and the
\* declared order only, and it is the earliest declared of the sections whose
\* ratios are within the margin of its own.
C6_EarliestWithinMargin ==
  [][ (AnimationFrame /\ phase = "mounted") =>
        /\ \A p \in Ids : active' = BestOf(p, ratios)
        /\ \A id \in Ids :
             (/\ RatioOf(ratios, id) <= RatioOf(ratios, active') + EPS
              /\ RatioOf(ratios, active') <= RatioOf(ratios, id) + EPS)
               => IndexOf(active') <= IndexOf(id) ]_vars

\* C6 as amended: the new active id depends on the stored ratios and the
\* declared order only; every section declared before it has a strictly
\* smaller ratio (of equal ratios the earliest declared wins) and no section
\* exceeds its ratio by more than the margin.
C6_OrderAlone ==
  [][ (AnimationFrame /\ phase = "mounted") =>
        /\ \A p \in Ids : active' = BestOf(p, ratios)
        /\ \A id \in Ids :
             IndexOf(id) < IndexOf(active')
               => RatioOf(ratios, id) < RatioOf(ratios, active')
        /\ \A id \in Ids :
             RatioOf(ratios, id) <= RatioOf(ratios, active') + EPS ]_vars

\* A recomputation chose the earlier of two sections with equal ratios.
C6_Witness ==
  /\ phase = "mounted"
  /\ frames = 0
  /\ active = "meaning"
  /\ RatioOf(ratios, "meaning") = Half
  /\ RatioOf(ratios, "pattern") = Half

\* C7: without any section element at setup there is no observer, no frame is
\* ever requested, and the active id stays the first declared id.
C7_NoElementsNoObserver ==
  elements = {} =>
    /\ ~observing
    /\ raf = 0
    /\ frames = 0
    /\ unseen = 0
    /\ active = sectionIds[1]

\* A component without section elements has been mounted and torn down.
C7_Witness == elements = {} /\ phase = "unmounted"

\* C8: at most one commitBest is pending; while mounted one is pending exactly
\* when a callback has run since the last commitBest, and with none pending
\* the active id is the one commitBest computes from the stored ratios.
C8_Coalesced ==
  /\ frames <= 1
  /\ phase = "mounted" =>
       /\ (frames = 1) <=> (raf # 0)
       /\ (frames = 1) <=> (unseen > 0)
       /\ frames = 0 => active = BestOf(active, ratios)

\* Two callbacks have run since the last commitBest and one frame is pending.
C8_Witness == phase = "mounted" /\ unseen >= 2 /\ frames = 1

\* C9: a decode that fails, the effect not cancelled, leaves its URL in the
\* loaded set and run at its next URL or at its end; a run that reaches its
\* end has every non-empty URL in the loaded set.
C9_FailureTolerated ==
  /\ [][ (DecodeFailed /\ ~cancelled) =>
           /\ urls[idx] \in Range(loaded')
           /\ pc' \in {"await", "done"}
           /\ idx' > idx ]_vars
  /\ [](pc = "done" =>
          \A i \in 1..Len(urls) : urls[i] # "" => urls[i] \in Range(loaded))

\* The first URL failed to decode, is in the loaded set, and the decode of
\* the second URL is in flight.
C9_Witness ==
  /\ hasDecode
  /\ lastOutcome = "fail"
  /\ pc = "await"
  /\ idx = 2
  /\ urls[1] \in Range(loaded)

\* C10: at most one decode is in flight, the decode of a URL starts only when
\* every earlier URL is in the loaded set, and the loaded set holds the URLs in
\* input order.
C10_InOrderOneAtATime ==
  /\ inflight <= 1
  /\ (inflight = 1) <=> (pc = "await")
  /\ pc = "await" =>
       /\ idx \in 1..Len(urls)
       /\ loaded = InputOrder(SubSeq(urls, 1, idx - 1))
  /\ IsPrefix(loaded, InputOrder(urls))

\* Both URLs of a list that names b before a are loaded, b first.
C10_Witness ==
  /\ pc = "done"
  /\ loaded = <<"/pics/b.png", "/pics/a.png">>

\* The hook usePreloadedImages when the scheduled callback fires and every
\* decode settles: what C14 assumes of the browser.
FairPreload ==
  /\ WF_vars(Mount)
  /\ WF_vars(RunScheduled)
  /\ WF_vars(Decoded \/ DecodeFailed)

SpecPreloadFair == InitPreload /\ [][NextPreload]_vars /\ FairPreload

\* Every non-empty URL of the list is in the loaded set.
AllLoaded ==
  \A i \in 1..Len(urls) : urls[i] # "" => urls[i] \in Range(loaded)

\* C11: isLoaded is true of an empty, null or undefined URL, and of any other
\* URL exactly when the loaded set holds it.
C11_IsLoaded ==
  \A u \in Range(urls) \cup UrlPool \cup {NullUrl, UndefinedUrl} :
    isLoaded(u) <=>
      (u \in {"", NullUrl, UndefinedUrl}
         \/ \E i \in 1..Len(loaded) : loaded[i] = u)

\* One URL of the list is loaded and another one is not.
C11_Witness ==
  /\ isLoaded(NullUrl)
  /\ isLoaded("")
  /\ \E u, v \in Range(urls) \ {""} : isLoaded(u) /\ ~isLoaded(v)

\* C12: every step keeps the URLs of the loaded set, and adds one only as the
\* decode of that URL, in flight until then, settles.
C12_LoadedGrows ==
  [][ /\ IsPrefix(loaded, loaded')
      /\ loaded' # loaded =>
           /\ pc = "await"
           /\ inflight = 1
           /\ lastOutcome' \in {"ok", "fail"}
           /\ loaded' = Append(loaded, urls[idx]) ]_vars

\* Two URLs are loaded and stay so after a re-run with a list that names
\* neither, and after the teardown.
C12_Witness ==
  /\ phase = "unmounted"
  /\ reruns > 0
  /\ Len(loaded) = 2
  /\ \A i \in 1..Len(urls) : urls[i] = ""

\* C13: once the effect is cancelled no decode is started, no URL is added to
\* the loaded set and nothing is rendered again.
C13_CancelledStops ==
  [][ cancelled =>
        /\ loaded' = loaded
        /\ inflight' <= inflight
        /\ pc' = "await" => UNCHANGED <<pc, idx, inflight, lastOutcome>>
        /\ UNCHANGED cfVars ]_vars

\* The decode of the first URL was in flight at the teardown and has settled
\* since; its URL is not in the loaded set.
C13_Witness ==
  /\ phase = "unmounted"
  /\ pc = "stopped"
  /\ idx = 1
  /\ lastOutcome # "none"
  /\ inflight = 0
  /\ urls[1] \notin Range(loaded)

\* C14: unless the component is torn down, the run ends with every non-empty
\* URL in the loaded set.
C14_Terminates == <>(phase = "unmounted" \/ (pc = "done" /\ AllLoaded))

\* A run has ended although its last decode failed.
C14_Witness ==
  /\ phase = "mounted"
  /\ pc = "done"
  /\ lastOutcome = "fail"
  /\ Len(loaded) = 2

\* C15: a run of onScroll, at a scroll event or at mount, leaves progress 0
\* where max <= 0 or scrollTop <= 0, 1 where scrollTop >= max, and
\* scrollTop / max otherwise; progress is within [0, 1] in every state.
C15_ProgressClamped ==
  /\ [][ (Mount \/ OnScroll) =>
           LET max == scrollHeight - clientHeight
           IN IF max <= 0 \/ scrollTop <= 0 THEN progress' = <<0, 1>>
              ELSE IF scrollTop >= max THEN progress' = <<1, 1>>
              ELSE /\ progress'[2] > 0
                   /\ progress'[1] * max = scrollTop * progress'[2] ]_vars
  /\ [](progress[2] > 0 /\ 0 <= progress[1] /\ progress[1] <= progress[2])

\* onScroll has read an offset past the end of the document and has set
\* progress to 1.
C15_Witness ==
  /\ listening
  /\ seenMax > 0
  /\ seenTop > seenMax
  /\ progress = <<1, 1>>

\* C16: a run of onScroll that finds the max of the run before it and an
\* offset not below that run's leaves progress not below what it was, and
\* with an offset not above that run's, not above what it was.
C16_Monotone ==
  [][ (OnScroll /\ seenMax = scrollHeight - clientHeight) =>
        /\ seenTop <= scrollTop =>
             progress[1] * progress'[2] <= progress'[1] * progress[2]
        /\ scrollTop <= seenTop =>
             progress'[1] * progress[2] <= progress[1] * progress'[2] ]_vars

\* onScroll has run at an offset inside the document, which has since been
\* scrolled further down, its heights as before.
C16_Witness ==
  /\ listening
  /\ seenMax = scrollHeight - clientHeight
  /\ 0 < seenTop
  /\ seenTop < scrollTop
  /\ scrollTop < seenMax
  /\ progress[1] * seenMax = seenTop * progress[2]

\* C17: a scroll event leaves everything but progress as it was: the active
\* section, the stored ratios, the displayed background and the loaded set.
C17_ScrollChangesProgressOnly ==
  [][ OnScroll =>
        /\ UNCHANGED <<active, ratios, displayKey, loaded>>
        /\ UNCHANGED <<phase, detVars, preVars, cfVars, navVars, listening>> ]_vars

\* Scroll events have moved progress off 0 on a page whose active section
\* and background are those of the second section, with images loaded.
C17_Witness ==
  /\ listening
  /\ progress # <<0, 1>>
  /\ active = "meaning"
  /\ displayKey = "meaning"
  /\ Len(loaded) > 1

\* C18: a step that changes the active id is an animation frame running
\* commitBest; a settled decode, a scroll event, the crossfade effect and
\* scrollToId leave it as it is.
C18_ActiveChangesInCommitBest ==
  [][ /\ active' # active => AnimationFrame
      /\ ( \/ Decoded
           \/ DecodeFailed
           \/ OnScroll
           \/ CrossfadeEffect
           \/ \E id \in NavTargets : ScrollToId(id) ) => active' = active ]_vars

\* The page was scrolled and navigated and has loaded an image, and no
\* observer callback has run: the active section is still the first.
C18_Witness ==
  /\ phase = "mounted"
  /\ active = "hero"
  /\ DOMAIN ratios = {}
  /\ fragment = "#meaning"
  /\ progress # <<0, 1>>
  /\ Len(loaded) > 0

\* The value of the six digits d1..d6 of "#d1d2d3d4d5d6" that make the
\* channel k: red 1, green 2, blue 3.
ChannelOf(hex, k) == 16 * DigitValue(hex[2 * k]) + DigitValue(hex[2 * k + 1])

\* The string for the three channels that f gives.
RgbOf(f(_)) ==
  "rgb(" \o ToString(f(1)) \o ", " \o ToString(f(2)) \o ", " \o ToString(f(3)) \o ")"

\* C19: mixHex(a, b, 0) has the channels of a, mixHex(a, b, 1) those of b,
\* and mixHex(a, b, 0.5) in each channel the mean of the two, a half rounded
\* up.
C19_MixEnds ==
  mixed # "" =>
    LET a(k) == ChannelOf(mixA, k)
        b(k) == ChannelOf(mixB, k)
        mid(k) == (a(k) + b(k) + 1) \div 2
    IN /\ mixT = <<0, 1>> => mixed = RgbOf(a)
       /\ mixT = <<1, 1>> => mixed = RgbOf(b)
       /\ mixT = <<1, 2>> => mixed = RgbOf(mid)

\* The middle of black and white: 127.5 in each channel, rounded to 128.
C19_Witness ==
  /\ mixA = <<"#", "0", "0", "0", "0", "0", "0">>
  /\ mixB = <<"#", "f", "f", "f", "f", "f", "f">>
  /\ mixT = <<1, 2>>
  /\ mixed = "rgb(128, 128, 128)"

\* C20: a step that changes the fragment is scrollToId(id) for an id that
\* has an element, scrollToId(id) for such an id leaves the fragment #id, and
\* an animation frame running commitBest leaves the fragment as it is.
C20_FragmentByNavigation ==
  [][ /\ fragment' # fragment =>
           \E id \in elements : ScrollToId(id) /\ fragment' = "#" \o id
      /\ \A id \in NavTargets \cap elements :
           ScrollToId(id) => fragment' = "#" \o id
      /\ \A id \in NavTargets \ elements :
           ScrollToId(id) => fragment' = fragment
      /\ AnimationFrame => fragment' = fragment ]_vars

\* The detector has made the second section active on a page whose URL a
\* navigation has given the fragment of that section.
C20_Witness ==
  /\ fragment = "#meaning"
  /\ active = "meaning"
  /\ RatioOf(ratios, "meaning") = Unit

\* C21: once the component is torn down no observer is connected, no
\* commitBest frame is waiting and no scroll listener is attached, and no
\* step changes the active id, the stored ratios, progress, the displayed
\* id or the loaded set.
C21_NothingAfterTeardown ==
  /\ [](phase = "unmounted" => ~observing /\ ~listening /\ frames = 0)
  /\ [][ phase = "unmounted" =>
           UNCHANGED <<active, ratios, progress, displayKey, loaded>> ]_vars

\* The teardown has cancelled a frame that an observer callback had
\* requested, and the document has been scrolled since.
C21_Witness ==
  /\ phase = "unmounted"
  /\ unseen > 0
  /\ frames = 0
  /\ scrollTop # seenTop
  /\ progress = <<0, 1>>

\* The ratios commitBest reads for the declared ids when those out of the
\* document count as 0.
RatiosOfPresent ==
  [id \in Ids |-> IF id \in elements THEN RatioOf(ratios, id) ELSE 0]

\* C22: with some declared ids out of the document the others are observed,
\* no ratio is ever stored for an id out of the document, and commitBest
\* gives what it gives with 0 for those ids.
C22_MissingSkipped ==
  /\ [](DOMAIN ratios \subseteq elements)
  /\ []((phase = "mounted" /\ elements # {}) => observing)
  /\ [][ AnimationFrame /\ phase = "mounted" =>
           active' = BestOf(active, RatiosOfPresent) ]_vars

\* The document has no second section; the first and the third have been
\* sampled and the third has become the active one.
C22_Witness ==
  /\ elements = {"hero", "pattern"}
  /\ DOMAIN ratios = {"hero", "pattern"}
  /\ active = "pattern"
  /\ frames = 0

\* The first n entries of a sequence.
Take(q, n) == SubSeq(q, 1, IF n < Len(q) THEN n ELSE Len(q))

\* C23: with requestIdleCallback and with the timer alike, the loaded set of
\* a run that is not cancelled holds the first non-empty, distinct URLs of the
\* list, as many as decodes have settled, whatever their outcomes; and once
\* the effect is cancelled no step changes the loaded set or starts a decode.
C23_SameWithIdleOrTimer ==
  /\ [](~cancelled => loaded = Take(InputOrder(urls), settled))
  /\ [][ cancelled => loaded' = loaded /\ inflight' <= inflight ]_vars

\* The timer variant has run to its end over two URLs, the last decode a
\* failure.
C23_Witness ==
  /\ ~hasIdle
  /\ phase = "mounted"
  /\ pc = "done"
  /\ settled = 2
  /\ Len(loaded) = 2
  /\ lastOutcome = "fail"

\* The last entry of a batch for an id, 0 if it has none.
LastEntryFor(batch, id) ==
  IF \E i \in 1..Len(batch) : batch[i].id = id
  THEN CHOOSE i \in 1..Len(batch) :
         /\ batch[i].id = id
         /\ \A j \in (i + 1)..Len(batch) : batch[j].id # id
  ELSE 0

\* C24: an observer callback leaves for each id of its batch the ratio of
\* the last entry for that id, 0 if that entry does not intersect, and leaves
\* every other id as it was.
C24_LastWriteWins ==
  [][ \A batch \in Batches(elements, SampleRatios, MaxBatch) :
        ObserveBatch(batch) =>
          \A id \in Ids :
            LET k == LastEntryFor(batch, id)
            IN IF k > 0
               THEN /\ id \in DOMAIN ratios'
                    /\ ratios'[id] =
                         (IF batch[k].isIntersecting
                          THEN batch[k].intersectionRatio ELSE 0)
               ELSE /\ (id \in DOMAIN ratios') <=> (id \in DOMAIN ratios)
                    /\ id \in DOMAIN ratios => ratios'[id] = ratios[id] ]_vars

\* A section seen above the half has since been reported as not
\* intersecting, while another keeps the ratio it had.
C24_Witness ==
  /\ DOMAIN ratios = {"hero", "meaning"}
  /\ ratios["hero"] = 0
  /\ ratios["meaning"] = Half
  /\ active = "hero"
  /\ unseen >= 2

\* C26: commitBest over ratios that are all 0 or absent makes the first
\* declared id the active one, whichever was active.
C26_AllZeroFirst ==
  [][ (AnimationFrame /\ phase = "mounted"
         /\ \A id \in Ids : RatioOf(ratios, id) = 0) =>
        active' = sectionIds[1] ]_vars

\* commitBest has run over ratios that are all 0, none of them of the first
\* section, and the first section is the active one.
C26_Witness ==
  /\ frames = 0
  /\ unseen = 0
  /\ active = sectionIds[1]
  /\ sectionIds[1] \notin DOMAIN ratios
  /\ DOMAIN ratios # {}
  /\ \A id \in DOMAIN ratios : ratios[id] = 0

\* C28: a teardown before any decode of the run was started leaves it so:
\* with the idle callback and with the timer, whether the callback fires or
\* not, no decode is started and the loaded set stays as it was.
C28_TeardownBeforeRun ==
  [][ (cancelled /\ settled = 0 /\ inflight = 0) =>
        /\ settled' = 0
        /\ inflight' = 0
        /\ pc' # "await"
        /\ loaded' = loaded ]_vars

\* The idle callback has fired after the teardown and run has returned at
\* the head of its first iteration; the loaded set holds what an earlier run
\* has loaded.
C28_Witness ==
  /\ hasIdle
  /\ phase = "unmounted"
  /\ pc = "stopped"
  /\ idx = 1
  /\ settled = 0
  /\ reruns > 0
  /\ Len(loaded) > 0
  /\ Len(urls) > 0
  /\ urls[1] \notin Range(loaded) \cup {""}

\* C25: the active id is the first declared id before the effects run and
\* one of the declared ids in every state, and neither the crossfade key nor
\* the displayed id is "none".
C25_ActiveDeclared ==
  /\ phase = "rendered" => active = sectionIds[1]
  /\ \E i \in 1..Len(sectionIds) : active = sectionIds[i]
  /\ KeyOf(active) # "none"
  /\ displayKey # "none"

\* The last declared section is active and displayed.
C25_Witness ==
  /\ active = sectionIds[Len(sectionIds)]
  /\ displayKey = "involved"
  /\ phase = "mounted"

\* C27: after mount a step that changes the displayed id sets it to the key
\* of the active section, whose image is then in the loaded set or not
\* configured; a decode that settles leaves the displayed id or sets it to
\* the key of the active section.
C27_DisplayFollowsActive ==
  /\ [][ (phase # "rendered" /\ displayKey' # displayKey) =>
           /\ displayKey' = KeyOf(active)
           /\ \/ cfgImage(KeyOf(active)) = ""
              \/ \E i \in 1..Len(loaded') : loaded'[i] = cfgImage(KeyOf(active)) ]_vars
  /\ [][ (Decoded \/ DecodeFailed) =>
           displayKey' \in {displayKey, KeyOf(active)} ]_vars

\* The third section is displayed, its image loaded, while the fifth is the
\* active one and waits for its image.
C27_Witness ==
  /\ phase = "mounted"
  /\ displayKey = "pattern"
  /\ active = "work"
  /\ ~pendingEffect
  /\ cfgImage("work") \notin Range(loaded)

\* C29: a click or a key press while the media query does not match leaves
\* open as it is, open becomes true only while it matches, and on a mounted
\* card whose effects have run open is false unless it matches.
C29_AutoModeTouchOnly ==
  /\ [][ ((Click \/ KeyDown) /\ ~mqlMatches) => open' = open ]_vars
  /\ [][ (open' /\ ~open) => (mqlMatches /\ touchLike) ]_vars
  /\ []((phase = "mounted" /\ ~rolePending /\ ~mqlMatches) => ~open)

\* The device has stopped being touch-like while the card was open; the
\* effect that closes the card has not run yet.
C29_Witness ==
  /\ phase = "mounted"
  /\ ~mqlMatches
  /\ ~touchLike
  /\ open
  /\ rolePending

\* C30: while the toggle is enabled, a click whose target is not inside a
\* nested a, button, input, textarea, select or label and a press of Enter or
\* Space negate open, so that two of them restore it, and a click inside such
\* an element and a press of another key leave open as it is.
C30_ToggleFlips ==
  [][ touchLike =>
        /\ \A path \in ClickPaths :
             CardClick(path) =>
               open' = (IF \E i \in 1..Len(path) :
                             path[i] \in {"a", "button", "input", "textarea",
                                          "select", "label"}
                        THEN open ELSE ~open)
        /\ \A key \in Keys :
             CardKeyDown(key) =>
               open' = (IF key \in {"Enter", " "} THEN ~open ELSE open) ]_vars

\* The card has been opened and a click inside a nested element has left it
\* open.
C30_Witness ==
  /\ phase = "mounted"
  /\ touchLike
  /\ open
  /\ lastEvent = "click inside"

====
